---- MODULE Spec2Model ----
(***************************************************************************)
(* A model of src/code/gpspec.py: the classes pcaUtils and pcaSED.         *)
(*                                                                         *)
(* Floating point values are modelled as exact rationals <<n, d>> in       *)
(* lowest terms with d > 0; d = 0 marks the non-finite values numpy        *)
(* produces on a division by zero: <<0,0>> is nan, <<1,0>> is inf and      *)
(* <<-1,0>> is -inf.  Rounding of float64 arithmetic is not modelled.      *)
(* Python indices are 0-based, the sequences here 1-based.                 *)
(***************************************************************************)
EXTENDS Integers, Sequences, FiniteSets, TLC

(* ------------------------------ bounds -------------------------------- *)
\* most files a directory holds
MaxFiles == 2
\* most samples of a spectrum file
GridLen == 2
\* largest wavelength of a sample; window limits range over 0..MaxWave+1
MaxWave == 4
\* largest component count asked of specPCA and of reconstruct_spectra
MaxComps == 2
\* most filters the instance is constructed with (at least 2)
MaxFilters == 3
\* most elements of an array handed to scaleSpectrum directly
ScaleLen == 3
\* such an array holds the integers -MaxFlux..MaxFlux
MaxFlux == 2

(* --------------------------- float arithmetic ------------------------- *)
Abs(x) == IF x < 0 THEN -x ELSE x

Sgn(x) == IF x < 0 THEN -1 ELSE IF x > 0 THEN 1 ELSE 0

RECURSIVE Gcd(_, _)
Gcd(a, b) == IF b = 0 THEN a ELSE Gcd(b, a % b)

\* the float n/d; a zero denominator gives nan or a signed infinity
Rat(n, d) ==
    IF d = 0 THEN <<Sgn(n), 0>>
    ELSE LET g == Gcd(Abs(n), Abs(d))
             s == IF d < 0 THEN -1 ELSE 1
         IN  <<(s * n) \div g, (s * d) \div g>>

R(i) == <<i, 1>>

NaN == <<0, 0>>

IsFinite(q) == q[2] # 0

IsNaN(q) == q = NaN

FAdd(a, b) ==
    IF IsFinite(a) /\ IsFinite(b) THEN Rat(a[1] * b[2] + b[1] * a[2], a[2] * b[2])
    ELSE IF IsNaN(a) \/ IsNaN(b) THEN NaN
    ELSE IF ~IsFinite(a) /\ ~IsFinite(b) THEN (IF a = b THEN a ELSE NaN)
    ELSE IF IsFinite(a) THEN b ELSE a

FNeg(a) == <<-a[1], a[2]>>

FSub(a, b) == FAdd(a, FNeg(b))

FMul(a, b) ==
    IF IsFinite(a) /\ IsFinite(b) THEN Rat(a[1] * b[1], a[2] * b[2])
    ELSE <<Sgn(a[1]) * Sgn(b[1]), 0>>

\* numpy's true division of floats: x/0 is a signed infinity, 0/0 is nan
FDiv(a, b) ==
    IF IsFinite(a) /\ IsFinite(b) THEN Rat(a[1] * b[2], a[2] * b[1])
    ELSE IF IsFinite(a) /\ ~IsNaN(b) THEN R(0)
    ELSE IF ~IsFinite(a) /\ IsFinite(b) /\ ~IsNaN(a)
         THEN <<a[1] * (IF b[1] < 0 THEN -1 ELSE 1), 0>>
    ELSE NaN

\* np.sum over a 1-d array
RECURSIVE FSum(_)
FSum(v) == IF v = <<>> THEN R(0) ELSE FAdd(v[1], FSum(Tail(v)))

\* elementwise a + b of two arrays of one length
VAdd(a, b) == [j \in 1..Len(a) |-> FAdd(a[j], b[j])]

\* np.dot of a coefficient vector c (length K) with a K x m matrix E
RECURSIVE DotRow(_, _, _)
DotRow(c, E, m) ==
    IF c = <<>> THEN [j \in 1..m |-> R(0)]
    ELSE VAdd([j \in 1..m |-> FMul(c[1], E[1][j])], DotRow(Tail(c), Tail(E), m))

SetMin(S) == CHOOSE x \in S : \A y \in S : x <= y

SetMax(S) == CHOOSE x \in S : \A y \in S : x >= y

Min2(a, b) == IF a < b THEN a ELSE b

(* ------------------------------- state -------------------------------- *)
VARIABLES
    directory,      \* the files os.walk finds under the constructor's directory
    spec_list_orig, \* self.spec_list_orig
    filters,        \* self.filters (self.bandpass_dict holds one bandpass each)
    has_spec_list,  \* whether the attribute self.spec_list exists
    spec_list,      \* self.spec_list
    has_model,      \* whether self.mean_spec, eigenspectra, projected exist
    mean_spec,      \* self.mean_spec
    eigenspectra,   \* self.eigenspectra
    projected,      \* self.projected
    colors,         \* self.colors
    fs,             \* the content of the output folder
    ret             \* the last call: its name, arguments and outcome

vars == <<directory, spec_list_orig, filters, has_spec_list, spec_list, has_model,
          mean_spec, eigenspectra, projected, colors, fs, ret>>

(* ---------------------------- pcaUtils -------------------------------- *)
\* a loader that keeps a spectrum whose first flux is nan
RECURSIVE loadSpectraKeepNan(_)
loadSpectraKeepNan(dir) ==
    IF dir = <<>> THEN <<>>
    ELSE LET f == dir[1]
             rest == loadSpectraKeepNan(Tail(dir))
         IN  IF f.readable
             THEN <<[name |-> f.name, wavelen |-> f.wavelen, flambda |-> f.flambda]>> \o rest
             ELSE rest

\* for name in files: the Sed is kept when readSED_flambda does not raise and
\* its first flux is not nan; spec.name is the bare file name
RECURSIVE loadSpectra(_)
loadSpectra(dir) ==
    IF dir = <<>> THEN <<>>
    ELSE LET f == dir[1]
             rest == loadSpectra(Tail(dir))
         IN  IF f.readable /\ ~IsNaN(f.flambda[1])
             THEN <<[name |-> f.name, wavelen |-> f.wavelen, flambda |-> f.flambda]>> \o rest
             ELSE rest

\* a norm that adds up the magnitudes of the elements
scaleSpectrumNormAbs(sedFlux) == FSum([i \in 1..Len(sedFlux) |-> <<Abs(sedFlux[i][1]), sedFlux[i][2]>>])

\* norm = np.sum(sedFlux)
scaleSpectrumNorm(sedFlux) == FSum(sedFlux)

\* a scaling that leaves a flux of sum zero as it is
scaleSpectrumGuarded(sedFlux) ==
    IF scaleSpectrumNorm(sedFlux) = R(0) THEN sedFlux
    ELSE [i \in 1..Len(sedFlux) |-> FDiv(sedFlux[i], scaleSpectrumNorm(sedFlux))]

\* normSpec = sedFlux/norm, a new array
scaleSpectrum(sedFlux) ==
    LET norm == scaleSpectrumNorm(sedFlux)
    IN  [i \in 1..Len(sedFlux) |-> FDiv(sedFlux[i], norm)]

(* ------------------------ collaborators of specPCA -------------------- *)
\* the magnitudes bandpass_dict.magListForSed may return for one spectrum: one
\* per filter, in filter order; the values are the collaborator's business
MagVals == {0, 1}

MagLists(nf, magVals) == [1..nf -> magVals]

\* Sed.resampleSED(wavelen_match=grid) of a spectrum sampled on the reference
\* grid: the flux at the samples of grid
resampleSED(spec, grid) ==
    [k \in 1..Len(grid) |->
        spec.flambda[CHOOSE i \in 1..Len(spec.wavelen) : spec.wavelen[i] = grid[k]]]

\* the signed unit vector s * e_j of length m
UnitVec(m, j, s) == [i \in 1..m |-> IF i = j THEN R(s) ELSE R(0)]

\* the n_comps x m matrices components_ may be: orthonormal rows.  The
\* eigen-decomposition itself is not computed: any rotation r of the axes and
\* either sign may come back.
Components(m, n_comps) ==
    {[k \in 1..n_comps |-> UnitVec(m, ((k - 1 + r) % m) + 1, s)] :
        r \in 0..(m - 1), s \in {1}}

\* spectra_pca.mean_: the mean over the rows of X, column by column
PCAMean(X) ==
    LET n == Len(X)
    IN  [j \in 1..Len(X[1]) |-> FDiv(FSum([i \in 1..n |-> X[i][j]]), R(n))]

\* spectra_pca.transform(X): the rows of X, centred, dotted with each component
PCATransform(X, mean, comps) ==
    [i \in 1..Len(X) |->
        [k \in 1..Len(comps) |->
            FSum([j \in 1..Len(mean) |-> FMul(FSub(X[i][j], mean[j]), comps[k][j])])]]

PCAFit(X, n_comps, c) ==
    [ok |-> TRUE, mean_ |-> PCAMean(X), components_ |-> c,
     transformed |-> PCATransform(X, PCAMean(X), c)]

PCAError == [ok |-> FALSE, mean_ |-> <<>>, components_ |-> <<>>, transformed |-> <<>>]

\* sklPCA(n_components=comps).fit(X) followed by transform(X).  check_array
\* rejects an X with no feature or with a nan or an infinity.  With comps above
\* min(n_samples, n_features) the library raises, or (releases that check comps
\* against n_features only) returns the min(n_samples, n_features) rows it has.
sklPCA(X, comps) ==
    LET n == Len(X)
        m == Len(X[1])
        lim == Min2(n, m)
    IN  IF m = 0 \/ \E i \in 1..n : \E j \in 1..m : ~IsFinite(X[i][j])
        THEN {PCAError}
        ELSE IF comps <= lim
        THEN {PCAFit(X, comps, c) : c \in Components(m, comps)}
        ELSE {PCAError} \cup
             (IF comps <= m THEN {PCAFit(X, lim, c) : c \in Components(m, lim)} ELSE {})

(* ------------------------------ specPCA ------------------------------- *)
\* a component count that clamps comps to the bound of the specification
n_componentsClamped(comps, n_spectra, n_samples) ==
    Min2(comps, Min2(n_spectra, n_samples) - 1)

\* sklPCA(n_components=comps): comps is handed on as given, whatever the number
\* of spectra and of samples
n_components(comps, n_spectra, n_samples) == comps

\* np.where(wavelen >= minWavelen)[0]
WhereGE(wavelen, minWavelen) == {i \in 1..Len(wavelen) : wavelen[i] >= minWavelen}

\* np.where(wavelen <= maxWavelen)[0]
WhereLE(wavelen, maxWavelen) == {i \in 1..Len(wavelen) : wavelen[i] <= maxWavelen}

\* the slice without its last sample: wavelen[min_wave_x:max_wave_x]
WavelenSetShort(wavelen, min_wave_x, max_wave_x) == SubSeq(wavelen, min_wave_x, max_wave_x - 1)

\* wavelen[min_wave_x:max_wave_x+1]
WavelenSet(wavelen, min_wave_x, max_wave_x) == SubSeq(wavelen, min_wave_x, max_wave_x)

\* the copy of spec appended to self.spec_list
TempSpec(spec, wavelen_set) ==
    LET flambda == resampleSED(spec, wavelen_set)
    IN  [name |-> spec.name, wavelen |-> wavelen_set, flambda |-> flambda,
         scale_flux |-> scaleSpectrum(flambda)]

\* color_vals, transposed: per spectrum, mags[c] - mags[c+1] for adjacent filters
specPCAColors(full_mags) ==
    [i \in 1..Len(full_mags) |->
        [c \in 1..(Len(full_mags[i]) - 1) |-> full_mags[i][c] - full_mags[i][c + 1]]]

Call(op, args, status, value) == [op |-> op, args |-> args, status |-> status, value |-> value]

\* a call of specPCA that raises after self.spec_list was set to sl
specPCARaise(comps, minWavelen, maxWavelen, sl) ==
    /\ has_spec_list' = TRUE
    /\ spec_list' = sl
    /\ ret' = Call("specPCA", <<comps, minWavelen, maxWavelen>>, "error", <<>>)
    /\ UNCHANGED <<directory, spec_list_orig, filters, has_model, mean_spec,
                   eigenspectra, projected, colors, fs>>

specPCA(comps, minWavelen, maxWavelen, magVals) ==
    IF spec_list_orig = <<>>
    THEN \* self.spec_list_orig[0]: IndexError
         specPCARaise(comps, minWavelen, maxWavelen, <<>>)
    ELSE
    LET wavelen == spec_list_orig[1].wavelen
        ge == WhereGE(wavelen, minWavelen)
        le == WhereLE(wavelen, maxWavelen)
    IN  IF ge = {} \/ le = {}
        THEN \* [0][0] or [0][-1] of an empty index array: IndexError
             specPCARaise(comps, minWavelen, maxWavelen, <<>>)
        ELSE
        LET wavelen_set == WavelenSet(wavelen, SetMin(ge), SetMax(le))
            sl == [i \in 1..Len(spec_list_orig) |-> TempSpec(spec_list_orig[i], wavelen_set)]
            scaled_fluxes == [i \in 1..Len(sl) |-> sl[i].scale_flux]
        IN  \/ \* resampleSED may raise on an empty wavelen_match, at the first spectrum
               /\ wavelen_set = <<>>
               /\ specPCARaise(comps, minWavelen, maxWavelen, <<>>)
            \/ \E pca \in sklPCA(scaled_fluxes,
                                  n_components(comps, Len(sl), Len(wavelen_set))) :
                  IF ~pca.ok
                  THEN specPCARaise(comps, minWavelen, maxWavelen, sl)
                  ELSE \E full_mags \in [1..Len(sl) -> MagLists(Len(filters), magVals)] :
                          /\ has_spec_list' = TRUE
                          /\ spec_list' = sl
                          /\ has_model' = TRUE
                          /\ mean_spec' = pca.mean_
                          /\ eigenspectra' = pca.components_
                          /\ projected' = pca.transformed
                          /\ colors' = specPCAColors(full_mags)
                          /\ ret' = Call("specPCA", <<comps, minWavelen, maxWavelen>>,
                                         "ok", <<>>)
                          /\ UNCHANGED <<directory, spec_list_orig, filters, fs>>

(* ------------------------- reconstruct_spectra ------------------------ *)
\* how many columns the slice [:, :num_comps] of a K-column array keeps
SliceCols(K, num_comps) ==
    IF num_comps >= 0 THEN Min2(num_comps, K)
    ELSE IF K + num_comps > 0 THEN K + num_comps ELSE 0

\* mean_spec + np.dot(projected[:, :num_comps], eigenspectra); np.dot raises
\* when the sliced width differs from the number of eigenspectra
reconstruct_spectra(num_comps) ==
    IF ~has_model
    THEN [status |-> "error", value |-> <<>>]
    ELSE LET cols == SliceCols(Len(projected[1]), num_comps)
         IN  IF cols # Len(eigenspectra)
             THEN [status |-> "error", value |-> <<>>]
             ELSE [status |-> "ok",
                   value |-> [i \in 1..Len(projected) |->
                                 VAdd(mean_spec,
                                      DotRow(SubSeq(projected[i], 1, cols), eigenspectra,
                                             Len(mean_spec)))]]

ReconstructSpectra(num_comps) ==
    LET r == reconstruct_spectra(num_comps)
    IN  /\ ret' = Call("reconstruct_spectra", <<num_comps>>, r.status, r.value)
        /\ UNCHANGED <<directory, spec_list_orig, filters, has_spec_list, spec_list,
                       has_model, mean_spec, eigenspectra, projected, colors, fs>>

(* --------------------------- calc_new_colors -------------------------- *)
\* seq[i] with Python's index i: a negative i counts from the end
PyIndex(seq, i) == IF i >= 0 THEN seq[i + 1] ELSE seq[Len(seq) + i + 1]

\* [mags[x] - mags[x-1] for x in range(len(self.filters)-1)]
calcColors(mags, nf) == [c \in 1..(nf - 1) |-> PyIndex(mags, c - 1) - PyIndex(mags, c - 2)]

calc_new_colors(num_comps) ==
    LET r == reconstruct_spectra(num_comps)
        unch == UNCHANGED <<directory, spec_list_orig, filters, has_spec_list, spec_list,
                            has_model, mean_spec, eigenspectra, projected, colors, fs>>
    IN  IF \/ r.status = "error"
           \/ spec_list = <<>>                                \* self.spec_list[0]
           \/ Len(spec_list[1].wavelen) # Len(mean_spec)      \* Sed.setSED
        THEN /\ ret' = Call("calc_new_colors", <<num_comps>>, "error", <<>>)
             /\ unch
        ELSE \E mags \in [1..Len(r.value) -> MagLists(Len(filters), MagVals)] :
                /\ ret' = Call("calc_new_colors", <<num_comps>>, "ok",
                               [colors |-> [i \in 1..Len(r.value) |->
                                               calcColors(mags[i], Len(filters))],
                                mags |-> mags])
                /\ unch

(* ----------------------------- write_output --------------------------- *)
\* np.savetxt writes each value with the format '%.18e': one digit, the point
\* and SavetxtPrecision more digits, then the decimal exponent
SavetxtPrecision == 18

\* <<n', d', e>> with n/d = (n'/d') * 10^e and 1 <= n'/d' < 10, for n, d > 0
RECURSIVE DecNormal(_, _, _)
DecNormal(n, d, e) ==
    IF n >= 10 * d THEN DecNormal(n, 10 * d, e + 1)
    ELSE IF n < d THEN DecNormal(10 * n, d, e - 1)
    ELSE <<n, d, e>>

\* the first k decimal digits of n/d, where 0 <= n/d < 10
RECURSIVE DecDigits(_, _, _)
DecDigits(n, d, k) ==
    IF k = 0 THEN <<>> ELSE <<n \div d>> \o DecDigits(10 * (n % d), d, k - 1)

\* one line of text: the sign, the digits of the mantissa and the exponent
FormatE(v) ==
    IF ~IsFinite(v) THEN [neg |-> v[1] < 0, digits |-> <<>>, exp |-> 0]
    ELSE IF v[1] = 0
    THEN [neg |-> FALSE, digits |-> [k \in 1..(SavetxtPrecision + 1) |-> 0], exp |-> 0]
    ELSE LET t == DecNormal(Abs(v[1]), v[2], 0)
         IN  [neg |-> v[1] < 0,
              digits |-> DecDigits(t[1], t[2], SavetxtPrecision + 1),
              exp |-> t[3]]

savetxt(X) == [i \in 1..Len(X) |-> FormatE(X[i])]

File(lines) == [exists |-> TRUE, lines |-> lines]

NoFile == [exists |-> FALSE, lines |-> <<>>]

\* a directory: whether it exists, and its files by name
Dir(files) == [exists |-> TRUE, files |-> files]

NoDir == [exists |-> FALSE, files |-> <<>>]

\* 'eigenspectra_' + str(specNum) + '.dat'
EigenspectraFile(specNum) == <<"eigenspectra_", specNum, "dat">>

\* specName + '.dat': a file name is the sequence of its dot-separated parts
ComponentsFile(specName) == Append(specName, "dat")

\* the files of outFolder/eigenspectra after the loop over self.eigenspectra
WriteEigenspectra ==
    [f \in {EigenspectraFile(k - 1) : k \in 1..Len(eigenspectra)} |->
        savetxt(eigenspectra[f[2] + 1])]

\* the files of outFolder/components after the first cnt rounds of the loop
\* over zip(self.spec_list, self.projected); a later savetxt to the same name
\* replaces the earlier file
RECURSIVE WriteComponents(_)
WriteComponents(cnt) ==
    IF cnt = 0 THEN <<>>
    ELSE (ComponentsFile(spec_list[cnt].name) :> savetxt(projected[cnt]))
         @@ WriteComponents(cnt - 1)

WriteOutputEnd(status, newfs) ==
    /\ ret' = Call("write_output", <<>>, status, <<>>)
    /\ fs' = newfs
    /\ UNCHANGED <<directory, spec_list_orig, filters, has_spec_list, spec_list,
                   has_model, mean_spec, eigenspectra, projected, colors>>

write_output ==
    IF ~has_spec_list \/ spec_list = <<>>
    THEN \* self.spec_list[0] raises before anything is written
         WriteOutputEnd("error", fs)
    ELSE
    LET fs1 == [fs EXCEPT !.wavelengths =
                   File(savetxt([i \in 1..Len(spec_list[1].wavelen) |->
                                    R(spec_list[1].wavelen[i])]))]
        fs2 == [fs1 EXCEPT !.eigenspectra = Dir(<<>>)]
        fs3 == [fs2 EXCEPT !.eigenspectra = Dir(WriteEigenspectra)]
        fs4 == [fs3 EXCEPT !.components =
                   Dir(WriteComponents(Min2(Len(spec_list), Len(projected))))]
        fs5 == [fs4 EXCEPT !.meanSpectrum = File(savetxt(mean_spec))]
    IN  IF fs1.eigenspectra.exists THEN WriteOutputEnd("error", fs1)  \* os.makedirs
        ELSE IF ~has_model THEN WriteOutputEnd("error", fs2)          \* self.eigenspectra
        ELSE IF fs3.components.exists THEN WriteOutputEnd("error", fs3) \* os.makedirs
        ELSE WriteOutputEnd("ok", fs5)

(* ---------------------------- load_pca_output ------------------------- *)
\* the number a sequence of decimal digits spells
RECURSIVE DigitsValue(_)
DigitsValue(ds) ==
    IF ds = <<>> THEN 0 ELSE 10 * DigitsValue(SubSeq(ds, 1, Len(ds) - 1)) + ds[Len(ds)]

RECURSIVE StripZeros(_)
StripZeros(ds) ==
    IF ds # <<>> /\ ds[Len(ds)] = 0 THEN StripZeros(SubSeq(ds, 1, Len(ds) - 1)) ELSE ds

RECURSIVE Pow10(_)
Pow10(k) == IF k = 0 THEN 1 ELSE 10 * Pow10(k - 1)

\* the float a line of text spells
ParseFloat(t) ==
    LET ds == StripZeros(t.digits)
        n == (IF t.neg THEN -1 ELSE 1) * DigitsValue(ds)
        shift == t.exp - (Len(ds) - 1)
    IN  IF t.digits = <<>> THEN NaN
        ELSE IF ds = <<>> THEN R(0)
        ELSE IF shift >= 0 THEN Rat(n * Pow10(shift), 1) ELSE Rat(n, Pow10(-shift))

loadtxt(lines) == [i \in 1..Len(lines) |-> ParseFloat(lines[i])]

\* the stem of a file name: the name without its last extension
Stem(fileName) == SubSeq(fileName, 1, Len(fileName) - 1)

\* the BasisModel read back from the output folder
load_pca_output ==
    IF ~(fs.wavelengths.exists /\ fs.meanSpectrum.exists /\ fs.eigenspectra.exists
         /\ fs.components.exists)
    THEN [status |-> "error", value |-> <<>>]
    ELSE [status |-> "ok",
          value |->
            [wavelengths |-> loadtxt(fs.wavelengths.lines),
             mean_spectrum |-> loadtxt(fs.meanSpectrum.lines),
             eigenspectra |->
                [k \in 1..Cardinality(DOMAIN fs.eigenspectra.files) |->
                    loadtxt(fs.eigenspectra.files[EigenspectraFile(k - 1)])],
             coefficients |->
                [stem \in {Stem(f) : f \in DOMAIN fs.components.files} |->
                    loadtxt(fs.components.files[Append(stem, "dat")])]]]

LoadPcaOutput ==
    LET r == load_pca_output
    IN  /\ ret' = Call("load_pca_output", <<>>, r.status, r.value)
        /\ UNCHANGED <<directory, spec_list_orig, filters, has_spec_list, spec_list,
                       has_model, mean_spec, eigenspectra, projected, colors, fs>>
(* ------------------------ calls of the utilities ---------------------- *)
LoadSpectra ==
    /\ ret' = Call("loadSpectra", <<>>, "ok", loadSpectra(directory))
    /\ UNCHANGED <<directory, spec_list_orig, filters, has_spec_list, spec_list,
                   has_model, mean_spec, eigenspectra, projected, colors, fs>>

\* the caller's array after scaleSpectrum returned: line 62 builds a new array
sedFluxAfter(sedFlux) == sedFlux

ScaleSpectrum(sedFlux) ==
    /\ ret' = Call("scaleSpectrum", sedFlux, "ok",
                   [normSpec |-> scaleSpectrum(sedFlux), sedFlux |-> sedFluxAfter(sedFlux)])
    /\ UNCHANGED <<directory, spec_list_orig, filters, has_spec_list, spec_list,
                   has_model, mean_spec, eigenspectra, projected, colors, fs>>

(* ---------------------------- construction ---------------------------- *)
IsIncreasing(g) == \A i \in 1..(Len(g) - 1) : g[i] < g[i + 1]

\* the wavelength grids of a spectrum file: strictly increasing
Grids == {g \in UNION {[1..l -> 1..MaxWave] : l \in 1..GridLen} : IsIncreasing(g)}

FluxVals == {R(-1), R(0), R(1)}

\* a spectrum file on grid g
SedContents(g) ==
    {[readable |-> TRUE, wavelen |-> g, flambda |-> f] : f \in [1..Len(g) -> FluxVals]}

\* a file loadSpectra skips: its first flux is nan, or readSED_flambda raises on it
SkippedContents(g) ==
    {[readable |-> TRUE, wavelen |-> g,
      flambda |-> [i \in 1..Len(g) |-> IF i = 1 THEN NaN ELSE R(1)]],
     [readable |-> FALSE, wavelen |-> <<>>, flambda |-> <<>>]}

FileAt(root, name, c) ==
    [root |-> root, name |-> name, readable |-> c.readable, wavelen |-> c.wavelen,
     flambda |-> c.flambda]

\* the directories of up to MaxFiles files in one folder, each file holding one
\* of contents(g) for a grid g the spectra share
Dirs(contents) ==
    UNION {UNION {{[i \in 1..n |-> FileAt("a", <<ToString(i), "dat">>, cs[i])] :
                      cs \in [1..n -> contents[g]]} : n \in 0..MaxFiles} : g \in Grids}

\* for fitting: every flux on the grid <<1, ..., GridLen>>, the flat flux on the
\* other grids
FitContents(g) ==
    IF g = [i \in 1..GridLen |-> i] THEN SedContents(g)
    ELSE {[readable |-> TRUE, wavelen |-> g, flambda |-> [i \in 1..Len(g) |-> R(1)]]}

DirsFit == Dirs([g \in Grids |-> FitContents(g)])

\* self.filters: a prefix of the default list, at least two filters
FilterNames == <<"u", "g", "r", "i", "z", "y">>

FilterLists == {SubSeq(FilterNames, 1, n) : n \in 2..MaxFilters}

FreshFs == [wavelengths |-> NoFile, meanSpectrum |-> NoFile, eigenspectra |-> NoDir,
            components |-> NoDir]

InitWith(dirs, fls, fss) ==
    /\ directory \in dirs
    /\ spec_list_orig = loadSpectra(directory)
    /\ filters \in fls
    /\ has_spec_list = FALSE
    /\ spec_list = <<>>
    /\ has_model = FALSE
    /\ mean_spec = <<>>
    /\ eigenspectra = <<>>
    /\ projected = <<>>
    /\ colors = <<>>
    /\ fs \in fss
    /\ ret = Call("__init__", <<>>, "ok", <<>>)

\* the arguments of specPCA: a component count and a window
SpecPCACall(magVals) ==
    \E comps \in 1..MaxComps : \E minWavelen \in 0..(MaxWave + 1) :
        \E maxWavelen \in (minWavelen + 1)..(MaxWave + 1) :
            specPCA(comps, minWavelen, maxWavelen, magVals)

(* fitting: any directory, any sequence of specPCA calls *)
InitFit == InitWith(DirsFit, {SubSeq(FilterNames, 1, 2)}, {FreshFs})

NextFit == SpecPCACall({0}) \/ LoadSpectra

SpecFit == InitFit /\ [][NextFit]_vars
(* loading: directories with files loadSpectra skips *)
LoadContents(g) ==
    SkippedContents(g) \cup
    {[readable |-> TRUE, wavelen |-> g, flambda |-> [i \in 1..Len(g) |-> R(1)]]}

InitLoad == InitWith(Dirs([g \in Grids |-> LoadContents(g)]), {SubSeq(FilterNames, 1, 2)}, {FreshFs})

NextLoad == LoadSpectra \/ SpecPCACall({0})

SpecLoad == InitLoad /\ [][NextLoad]_vars

(* reconstruction and colours: spectra on the grid <<1, ..., GridLen>>, fitted
   over the whole grid *)
FullGrid == [i \in 1..GridLen |-> i]

\* positive fluxes, which differ in shape from file to file
UseContents(g) ==
    IF g = FullGrid
    THEN {[readable |-> TRUE, wavelen |-> g, flambda |-> f] :
             f \in [1..Len(g) -> {R(1), R(3)}]}
    ELSE {}

SpecPCAWhole == \E comps \in 1..MaxComps : specPCA(comps, 0, MaxWave + 1, {0})

InitUse == InitWith(Dirs([g \in Grids |-> UseContents(g)]), FilterLists, {FreshFs})

NextUse ==
    \/ SpecPCAWhole
    \/ \E num_comps \in (-1)..(MaxComps + 1) : ReconstructSpectra(num_comps)
    \/ \E num_comps \in (-1)..(MaxComps + 1) : calc_new_colors(num_comps)

SpecUse == InitUse /\ [][NextUse]_vars

(* persistence: files in the folders a and b of the directory, which may share
   a bare name; an output folder that is fresh or holds an earlier output *)
Roots == <<"a", "b">>

BaseNames == <<"x", "y">>

\* the paths os.walk yields, folder by folder
WalkPaths ==
    [k \in 1..(Len(Roots) * Len(BaseNames)) |->
        [root |-> Roots[((k - 1) \div Len(BaseNames)) + 1],
         name |-> <<BaseNames[((k - 1) % Len(BaseNames)) + 1], "dat">>]]

\* the increasing index sequences of length n into WalkPaths
Picks(n) == {p \in [1..n -> 1..Len(WalkPaths)] : IsIncreasing(p)}

DirsIO ==
    UNION {{[i \in 1..n |-> FileAt(WalkPaths[p[i]].root, WalkPaths[p[i]].name, cs[i])] :
               p \in Picks(n), cs \in [1..n -> UseContents(FullGrid)]} :
           n \in 0..MaxFiles}

\* an output folder an earlier run left: wavelengths.dat of another grid, and
\* the subdirectories that run created
OldFs(eig, comp) ==
    [wavelengths |-> File(savetxt(<<R(MaxWave + 1)>>)), meanSpectrum |-> NoFile,
     eigenspectra |-> IF eig THEN Dir(<<>>) ELSE NoDir,
     components |-> IF comp THEN Dir(<<>>) ELSE NoDir]

InitIO ==
    InitWith(DirsIO, {SubSeq(FilterNames, 1, 2)},
             {FreshFs, OldFs(TRUE, TRUE), OldFs(TRUE, FALSE), OldFs(FALSE, TRUE)})

NextIO == SpecPCAWhole \/ write_output \/ LoadPcaOutput

SpecIO == InitIO /\ [][NextIO]_vars

(* scaleSpectrum called on its own *)
ScaleInputs == UNION {[1..l -> {R(i) : i \in (-MaxFlux)..MaxFlux}] : l \in 0..ScaleLen}

InitScale == InitWith({<<>>}, {SubSeq(FilterNames, 1, 2)}, {FreshFs})

NextScale == \E sedFlux \in ScaleInputs : ScaleSpectrum(sedFlux)

SpecScale == InitScale /\ [][NextScale]_vars

(* everything: any sequence of calls on one instance with two filters *)
Init == InitWith(Dirs([g \in Grids |-> UseContents(g)]), {SubSeq(FilterNames, 1, 2)}, {FreshFs})

Next == NextUse \/ LoadSpectra \/ write_output \/ LoadPcaOutput

Spec == Init /\ [][Next]_vars
(* ------------------------------- claims ------------------------------- *)
\* the reconstruction of spectrum i from its first num_comps coefficients
TruncatedReconstruction(i, num_comps) ==
    VAdd(mean_spec,
         DotRow(SubSeq(projected[i], 1, num_comps), SubSeq(eigenspectra, 1, num_comps),
                Len(mean_spec)))

\* C1: on a fitted model, reconstruct_spectra(num_comps) with 0 <= num_comps <=
\* number of eigenspectra returns, for every spectrum i, mean_spec plus the sum
\* over the first num_comps components of projected[i][k] * eigenspectra[k]; a
\* num_comps below the number of eigenspectra gives a result, not a failure.
C1_ReconstructTruncated ==
    (ret.op = "reconstruct_spectra" /\ has_model /\ ret.args[1] >= 0
        /\ ret.args[1] <= Len(eigenspectra))
    => /\ ret.status = "ok"
       /\ Len(ret.value) = Len(projected)
       /\ \A i \in 1..Len(projected) : ret.value[i] = TruncatedReconstruction(i, ret.args[1])

\* C2: on a fitted model, reconstruct_spectra(num_comps) with num_comps above
\* the number of eigenspectra, or negative, fails with an error and returns
\* no spectra.
C2_ReconstructRejects ==
    (ret.op = "reconstruct_spectra" /\ has_model
        /\ (ret.args[1] > Len(eigenspectra) \/ ret.args[1] < 0))
    => ret.status = "error"

\* C3: calc_new_colors returns, for every reconstructed spectrum with the
\* magnitudes m the collaborator gave in filter order, n-1 colors with color i
\* equal to m[i] - m[i+1], the convention of specPCA.
C3_AdjacentColors ==
    (ret.op = "calc_new_colors" /\ ret.status = "ok")
    => \A i \in 1..Len(ret.value.mags) :
          /\ Len(ret.value.colors[i]) = Len(filters) - 1
          /\ ret.value.colors[i] = specPCAColors(ret.value.mags)[i]

\* the fitted model as the BasisModel a load is to give back
CoefficientsKept(loaded) ==
    \A i \in 1..Len(spec_list) :
        /\ spec_list[i].name \in DOMAIN loaded.coefficients
        /\ loaded.coefficients[spec_list[i].name] = projected[i]

\* C4: a load that follows a successful write_output to a fresh folder gives
\* the fitted model back field for field: the wavelength grid, the mean
\* spectrum, the eigenspectra in order, and for every fitted spectrum the
\* coefficient vector under its name.
C4_RoundTrip ==
    [][(ret.op = "write_output" /\ ret.status = "ok" /\ ret'.op = "load_pca_output")
        => /\ ret'.status = "ok"
           /\ ret'.value.wavelengths =
                 [i \in 1..Len(spec_list[1].wavelen) |-> R(spec_list[1].wavelen[i])]
           /\ ret'.value.mean_spectrum = mean_spec
           /\ ret'.value.eigenspectra = eigenspectra
           /\ CoefficientsKept(ret'.value)]_vars

\* every file of directory d before the step is there after it, unchanged
DirKept(d, e) ==
    \A f \in DOMAIN d.files : f \in DOMAIN e.files /\ e.files[f] = d.files[f]

\* C5: write_output on a folder that holds the eigenspectra or the components
\* subdirectory fails with an error and every file that was there keeps its
\* content.
C5_NoOverwrite ==
    [][(ret'.op = "write_output" /\ (fs.eigenspectra.exists \/ fs.components.exists))
        => /\ ret'.status = "error"
           /\ (fs.wavelengths.exists => fs'.wavelengths = fs.wavelengths)
           /\ (fs.meanSpectrum.exists => fs'.meanSpectrum = fs.meanSpectrum)
           /\ DirKept(fs.eigenspectra, fs'.eigenspectra)
           /\ DirKept(fs.components, fs'.components)]_vars

\* every file of the directory is one loadSpectra skips
AllSkipped(dir) ==
    \A i \in 1..Len(dir) : ~dir[i].readable \/ IsNaN(dir[i].flambda[1])

\* C6 as stated: loadSpectra on a directory with no usable file raises, and
\* specPCA with no loaded spectrum raises and stores no model.
C6_EmptyRaises ==
    /\ (ret.op = "loadSpectra" /\ AllSkipped(directory)) => ret.status = "error"
    /\ (ret.op = "specPCA" /\ spec_list_orig = <<>>) => (ret.status = "error" /\ ~has_model)

\* C6, amended: loadSpectra on a directory with no usable file returns the
\* empty list; the error comes at the fit: specPCA with no loaded spectrum
\* raises and no model is stored.
C6_EmptyFailsAtFit ==
    /\ AllSkipped(directory) => spec_list_orig = <<>>
    /\ (ret.op = "loadSpectra" /\ AllSkipped(directory))
          => (ret.status = "ok" /\ ret.value = <<>>)
    /\ (ret.op = "specPCA" /\ spec_list_orig = <<>>) => (ret.status = "error" /\ ~has_model)

C6_Witness ==
    /\ ret.op = "specPCA"
    /\ Len(directory) = MaxFiles
    /\ AllSkipped(directory)
    /\ ret.status = "error"

\* the samples of the first loaded spectrum inside the window of the last call
InWindow(lo, hi) == SelectSeq(spec_list_orig[1].wavelen, LAMBDA w : lo <= w /\ w <= hi)

\* C7: the grid specPCA fits on is the first spectrum's samples inside the
\* window, in order; with no sample inside the window the call fails.
C7_WindowGrid ==
    (ret.op = "specPCA" /\ spec_list_orig # <<>>)
    => LET inside == InWindow(ret.args[2], ret.args[3])
       IN  /\ inside = <<>> => ret.status = "error"
           /\ ret.status = "ok"
                 => /\ \A i \in 1..Len(spec_list) : spec_list[i].wavelen = inside
                    /\ Len(spec_list) = Len(spec_list_orig)
                    /\ Len(mean_spec) = Len(inside)

C7_Witness ==
    /\ ret.op = "specPCA"
    /\ ret.status = "ok"
    /\ Len(spec_list_orig[1].wavelen) = GridLen
    /\ Len(spec_list[1].wavelen) = GridLen - 1

\* the flux of loaded spectrum i inside the window of the last call
FluxInWindow(i, lo, hi) ==
    LET s == spec_list_orig[i]
    IN  [k \in 1..Len(InWindow(lo, hi)) |->
            s.flambda[CHOOSE j \in 1..Len(s.wavelen) : s.wavelen[j] = InWindow(lo, hi)[k]]]

\* some loaded spectrum's flux inside the window adds up to zero
ZeroSumInWindow(lo, hi) ==
    \E i \in 1..Len(spec_list_orig) : FSum(FluxInWindow(i, lo, hi)) = R(0)

\* C8: for a flux whose sum is not zero, scaleSpectrum returns an array of the
\* same length whose element i times the sum is flux[i], so that it adds up to
\* 1; the array handed in is as it was.
C8_ScaleToUnitSum ==
    (ret.op = "scaleSpectrum" /\ FSum(ret.args) # R(0))
    => /\ Len(ret.value.normSpec) = Len(ret.args)
       /\ \A i \in 1..Len(ret.args) :
             FMul(ret.value.normSpec[i], FSum(ret.args)) = ret.args[i]
       /\ FSum(ret.value.normSpec) = R(1)
       /\ ret.value.sedFlux = ret.args

C8_Witness ==
    /\ ret.op = "scaleSpectrum"
    /\ Len(ret.args) = ScaleLen
    /\ FSum(ret.args) = R(-1)
    /\ \E i \in 1..Len(ret.args) : ret.args[i] = R(MaxFlux)

\* min(number of loaded spectra, number of samples inside the window)
CompLimit(lo, hi) == Min2(Len(spec_list_orig), Len(InWindow(lo, hi)))

\* C9 as stated: a comps above min(spectra, samples) - 1 makes specPCA raise.
C9_CompsAboveLimitRaise ==
    (ret.op = "specPCA" /\ spec_list_orig # <<>>
        /\ ret.args[1] > CompLimit(ret.args[2], ret.args[3]) - 1)
    => ret.status = "error"

\* C9, amended: specPCA does not check comps.  Over a window with samples where
\* no flux adds up to zero, a comps up to min(spectra, samples), that bound
\* included, is fitted with exactly comps eigenspectra and comps coefficients
\* per spectrum; a call that returns with a larger comps holds min(spectra,
\* samples) eigenspectra.
C9_CompsUpToLimitFit ==
    (ret.op = "specPCA" /\ spec_list_orig # <<>>)
    => LET lim == CompLimit(ret.args[2], ret.args[3])
       IN  /\ (ret.args[1] <= lim /\ ~ZeroSumInWindow(ret.args[2], ret.args[3]))
                 => ret.status = "ok"
           /\ ret.status = "ok"
                 => /\ Len(eigenspectra) = Min2(ret.args[1], lim)
                    /\ \A i \in 1..Len(projected) :
                          Len(projected[i]) = Min2(ret.args[1], lim)

C9_Witness ==
    /\ ret.op = "specPCA"
    /\ ret.status = "ok"
    /\ Len(spec_list_orig) = 2
    /\ ret.args[1] = 2
    /\ CompLimit(ret.args[2], ret.args[3]) = 2
    /\ Len(eigenspectra) = 2

\* C10: a specPCA call over a window in which some loaded spectrum's flux adds
\* up to zero raises, and leaves mean_spec, eigenspectra and projected as
\* they were: no model comes of it.
C10_ZeroSumNoModel ==
    [][(ret'.op = "specPCA" /\ spec_list_orig # <<>>
          /\ ZeroSumInWindow(ret'.args[2], ret'.args[3]))
        => /\ ret'.status = "error"
           /\ UNCHANGED <<has_model, mean_spec, eigenspectra, projected>>]_vars

C10_Witness ==
    /\ ret.op = "specPCA"
    /\ ret.status = "error"
    /\ spec_list_orig # <<>>
    /\ InWindow(ret.args[2], ret.args[3]) # <<>>
    /\ ret.args[1] = 1
    /\ ZeroSumInWindow(ret.args[2], ret.args[3])
    /\ has_model

\* the fields of the stored model agree with each other and with self.spec_list
ModelConsistent ==
    /\ Len(spec_list) = Len(spec_list_orig)
    /\ Len(projected) = Len(spec_list)
    /\ \A i \in 1..Len(projected) : Len(projected[i]) = Len(eigenspectra)
    /\ spec_list # <<>>
    /\ Len(mean_spec) = Len(spec_list[1].wavelen)
    /\ \A k \in 1..Len(eigenspectra) : Len(eigenspectra[k]) = Len(spec_list[1].wavelen)

\* C11: after any sequence of specPCA calls, those that raise included, a
\* model that is present is consistent: spec_list[0].wavelen is as long as
\* mean_spec and as every eigenspectrum, every row of projected is as long as
\* the list of eigenspectra, projected has one row per entry of spec_list and
\* spec_list one entry per loaded spectrum.
C11_ModelConsistent == has_model => ModelConsistent
====
